---- MODULE Spec2Model ----
(***************************************************************************)
(* A model of main.py: the POST /apply handler, the reCAPTCHA check and    *)
(* append_to_excel with its recovery of a damaged applications.xlsx.       *)
(*                                                                         *)
(* Texts are sequences of pieces (strings); a whitespace character, a      *)
(* path separator and a dot are always pieces of their own, and file names *)
(* are spelled character by character.  Python's None is the text None.    *)
(* A character TLA+ has no escape for is the piece that spells it the way  *)
(* Python's ascii() does, with lower-case hexadecimal digits: "\\x0b" is    *)
(* the one character U+000B, "\\x00" is NUL, "\\xe9", "\\u4e2d" and          *)
(* "\\U0001f600" are one character each.                                     *)
(***************************************************************************)
EXTENDS Naturals, Sequences, FiniteSets, TLC

\* ------------------------------------------------------------- bounds
NumProcs == 2
MaxOdd == 3
MaxInitRows == 1
MaxSecond == 1

\* ---------------------------------------------------------- constants
MAX_UPLOAD_MB == 15
MiB == 1048576
MinScoreTenths == 4
NAME_MAX == 255
MAX_CELL == 32767

None == <<"<None>">>

Range(s) == {s[i] : i \in 1..Len(s)}

\* ------------------------------------------------------------- texts
\* str.isspace() of one character: the characters str.strip() removes
WhitespaceChars ==
  {" ", "\t", "\n", "\r", "\f", "\\x0b", "\\x1c", "\\x1d", "\\x1e", "\\x1f",
   "\\x85", "\\xa0", "\\u1680", "\\u2000", "\\u2001", "\\u2002", "\\u2003",
   "\\u2004", "\\u2005", "\\u2006", "\\u2007", "\\u2008", "\\u2009", "\\u200a",
   "\\u2028", "\\u2029", "\\u202f", "\\u205f", "\\u3000"}

IsSpace(c) == c \in WhitespaceChars

\* str.lstrip(): from the first character that is no whitespace
LStrip(t) ==
  IF \A i \in 1..Len(t) : IsSpace(t[i]) THEN <<>>
  ELSE SubSeq(t, CHOOSE i \in 1..Len(t) :
                   ~IsSpace(t[i]) /\ \A j \in 1..(i - 1) : IsSpace(t[j]), Len(t))

\* str.rstrip(): up to the last character that is no whitespace
RStrip(t) ==
  IF \A i \in 1..Len(t) : IsSpace(t[i]) THEN <<>>
  ELSE SubSeq(t, 1, CHOOSE i \in 1..Len(t) :
                      ~IsSpace(t[i]) /\ \A j \in (i + 1)..Len(t) : IsSpace(t[j]))

\* str.strip()
Strip(t) == RStrip(LStrip(t))

\* sep.join(items): items is a sequence of texts
RECURSIVE Join(_, _)
Join(sep, items) ==
  IF items = <<>> THEN <<>>
  ELSE IF Len(items) = 1 THEN items[1]
  ELSE items[1] \o sep \o Join(sep, Tail(items))

\* bool(value) of a form value: None and "" are falsy
Truthy(t) == t # None /\ t # <<>>

\* (value or "")
OrEmpty(t) == IF Truthy(t) THEN t ELSE <<>>

\* ------------------------------------------------------- characters
\* the printable ASCII characters in order, U+0020 to U+005F and U+0061 to
\* U+007E (U+0060 is spelled "\\x60")
PrintableLow == " !\"#$%&'()*+,-./0123456789:;<=>?@ABCDEFGHIJKLMNOPQRSTUVWXYZ[\\]^_"

PrintableHigh == "abcdefghijklmnopqrstuvwxyz{|}~"

HexDigits == "0123456789abcdef"

HexVal(d) == (CHOOSE i \in 1..Len(HexDigits) : SubSeq(HexDigits, i, i) = d) - 1

RECURSIVE ParseHex(_)
ParseHex(s) ==
  IF Len(s) = 0 THEN 0
  ELSE 16 * ParseHex(SubSeq(s, 1, Len(s) - 1)) + HexVal(SubSeq(s, Len(s), Len(s)))

RECURSIVE HexOf(_, _)
HexOf(n, width) ==
  IF width = 0 THEN ""
  ELSE HexOf(n \div 16, width - 1) \o SubSeq(HexDigits, (n % 16) + 1, (n % 16) + 1)

\* ord(c) of a piece that is one character
CodePoint(c) ==
  IF Len(c) = 1
  THEN IF c = "\t" THEN 9
       ELSE IF c = "\n" THEN 10
       ELSE IF c = "\f" THEN 12
       ELSE IF c = "\r" THEN 13
       ELSE IF \E i \in 1..Len(PrintableLow) : SubSeq(PrintableLow, i, i) = c
       THEN 31 + CHOOSE i \in 1..Len(PrintableLow) : SubSeq(PrintableLow, i, i) = c
       ELSE 96 + CHOOSE i \in 1..Len(PrintableHigh) : SubSeq(PrintableHigh, i, i) = c
  ELSE ParseHex(SubSeq(c, 3, Len(c)))

\* chr(cp) as a piece
Chr(cp) ==
  IF cp = 9 THEN "\t"
  ELSE IF cp = 10 THEN "\n"
  ELSE IF cp = 12 THEN "\f"
  ELSE IF cp = 13 THEN "\r"
  ELSE IF cp >= 32 /\ cp <= 95 THEN SubSeq(PrintableLow, cp - 31, cp - 31)
  ELSE IF cp >= 97 /\ cp <= 126 THEN SubSeq(PrintableHigh, cp - 96, cp - 96)
  ELSE IF cp < 256 THEN "\\x" \o HexOf(cp, 2)
  ELSE IF cp < 65536 THEN "\\u" \o HexOf(cp, 4)
  ELSE "\\U" \o HexOf(cp, 8)

\* the simple lower-case mappings of the Unicode database str.lower() reads
\* (Unicode 14.0), as runs <<lo, hi, step, to>>: the characters lo, lo + step,
\* .. hi lower to to, to + step, ..
LowerRuns ==
  <<<<65,90,1,97>>, <<192,214,1,224>>, <<216,222,1,248>>, <<256,302,2,257>>,
   <<306,310,2,307>>, <<313,327,2,314>>, <<330,374,2,331>>, <<376,376,1,255>>,
   <<377,381,2,378>>, <<385,385,1,595>>, <<386,388,2,387>>, <<390,390,1,596>>,
   <<391,391,1,392>>, <<393,394,1,598>>, <<395,395,1,396>>, <<398,398,1,477>>,
   <<399,399,1,601>>, <<400,400,1,603>>, <<401,401,1,402>>, <<403,403,1,608>>,
   <<404,404,1,611>>, <<406,406,1,617>>, <<407,407,1,616>>, <<408,408,1,409>>,
   <<412,412,1,623>>, <<413,413,1,626>>, <<415,415,1,629>>, <<416,420,2,417>>,
   <<422,422,1,640>>, <<423,423,1,424>>, <<425,425,1,643>>, <<428,428,1,429>>,
   <<430,430,1,648>>, <<431,431,1,432>>, <<433,434,1,650>>, <<435,437,2,436>>,
   <<439,439,1,658>>, <<440,440,1,441>>, <<444,444,1,445>>, <<452,452,1,454>>,
   <<453,453,1,454>>, <<455,455,1,457>>, <<456,456,1,457>>, <<458,458,1,460>>,
   <<459,475,2,460>>, <<478,494,2,479>>, <<497,497,1,499>>, <<498,500,2,499>>,
   <<502,502,1,405>>, <<503,503,1,447>>, <<504,542,2,505>>, <<544,544,1,414>>,
   <<546,562,2,547>>, <<570,570,1,11365>>, <<571,571,1,572>>,
   <<573,573,1,410>>, <<574,574,1,11366>>, <<577,577,1,578>>,
   <<579,579,1,384>>, <<580,580,1,649>>, <<581,581,1,652>>, <<582,590,2,583>>,
   <<880,882,2,881>>, <<886,886,1,887>>, <<895,895,1,1011>>,
   <<902,902,1,940>>, <<904,906,1,941>>, <<908,908,1,972>>, <<910,911,1,973>>,
   <<913,929,1,945>>, <<931,939,1,963>>, <<975,975,1,983>>,
   <<984,1006,2,985>>, <<1012,1012,1,952>>, <<1015,1015,1,1016>>,
   <<1017,1017,1,1010>>, <<1018,1018,1,1019>>, <<1021,1023,1,891>>,
   <<1024,1039,1,1104>>, <<1040,1071,1,1072>>, <<1120,1152,2,1121>>,
   <<1162,1214,2,1163>>, <<1216,1216,1,1231>>, <<1217,1229,2,1218>>,
   <<1232,1326,2,1233>>, <<1329,1366,1,1377>>, <<4256,4293,1,11520>>,
   <<4295,4295,1,11559>>, <<4301,4301,1,11565>>, <<5024,5103,1,43888>>,
   <<5104,5109,1,5112>>, <<7312,7354,1,4304>>, <<7357,7359,1,4349>>,
   <<7680,7828,2,7681>>, <<7838,7838,1,223>>, <<7840,7934,2,7841>>,
   <<7944,7951,1,7936>>, <<7960,7965,1,7952>>, <<7976,7983,1,7968>>,
   <<7992,7999,1,7984>>, <<8008,8013,1,8000>>, <<8025,8031,2,8017>>,
   <<8040,8047,1,8032>>, <<8072,8079,1,8064>>, <<8088,8095,1,8080>>,
   <<8104,8111,1,8096>>, <<8120,8121,1,8112>>, <<8122,8123,1,8048>>,
   <<8124,8124,1,8115>>, <<8136,8139,1,8050>>, <<8140,8140,1,8131>>,
   <<8152,8153,1,8144>>, <<8154,8155,1,8054>>, <<8168,8169,1,8160>>,
   <<8170,8171,1,8058>>, <<8172,8172,1,8165>>, <<8184,8185,1,8056>>,
   <<8186,8187,1,8060>>, <<8188,8188,1,8179>>, <<8486,8486,1,969>>,
   <<8490,8490,1,107>>, <<8491,8491,1,229>>, <<8498,8498,1,8526>>,
   <<8544,8559,1,8560>>, <<8579,8579,1,8580>>, <<9398,9423,1,9424>>,
   <<11264,11311,1,11312>>, <<11360,11360,1,11361>>, <<11362,11362,1,619>>,
   <<11363,11363,1,7549>>, <<11364,11364,1,637>>, <<11367,11371,2,11368>>,
   <<11373,11373,1,593>>, <<11374,11374,1,625>>, <<11375,11375,1,592>>,
   <<11376,11376,1,594>>, <<11378,11378,1,11379>>, <<11381,11381,1,11382>>,
   <<11390,11391,1,575>>, <<11392,11490,2,11393>>, <<11499,11501,2,11500>>,
   <<11506,11506,1,11507>>, <<42560,42604,2,42561>>, <<42624,42650,2,42625>>,
   <<42786,42798,2,42787>>, <<42802,42862,2,42803>>, <<42873,42875,2,42874>>,
   <<42877,42877,1,7545>>, <<42878,42886,2,42879>>, <<42891,42891,1,42892>>,
   <<42893,42893,1,613>>, <<42896,42898,2,42897>>, <<42902,42920,2,42903>>,
   <<42922,42922,1,614>>, <<42923,42923,1,604>>, <<42924,42924,1,609>>,
   <<42925,42925,1,620>>, <<42926,42926,1,618>>, <<42928,42928,1,670>>,
   <<42929,42929,1,647>>, <<42930,42930,1,669>>, <<42931,42931,1,43859>>,
   <<42932,42946,2,42933>>, <<42948,42948,1,42900>>, <<42949,42949,1,642>>,
   <<42950,42950,1,7566>>, <<42951,42953,2,42952>>, <<42960,42960,1,42961>>,
   <<42966,42968,2,42967>>, <<42997,42997,1,42998>>, <<65313,65338,1,65345>>,
   <<66560,66599,1,66600>>, <<66736,66771,1,66776>>, <<66928,66938,1,66967>>,
   <<66940,66954,1,66979>>, <<66956,66962,1,66995>>, <<66964,66965,1,67003>>,
   <<68736,68786,1,68800>>, <<71840,71871,1,71872>>, <<93760,93791,1,93792>>,
   <<125184,125217,1,125218>>>>

\* the code points with the property Cased, as ranges <<lo, hi>>
CasedRanges ==
  <<<<65,90>>, <<97,122>>, <<170,170>>, <<181,181>>, <<186,186>>, <<192,214>>,
   <<216,246>>, <<248,442>>, <<444,447>>, <<452,659>>, <<661,696>>,
   <<704,705>>, <<736,740>>, <<837,837>>, <<880,883>>, <<886,887>>,
   <<890,893>>, <<895,895>>, <<902,902>>, <<904,906>>, <<908,908>>,
   <<910,929>>, <<931,1013>>, <<1015,1153>>, <<1162,1327>>, <<1329,1366>>,
   <<1376,1416>>, <<4256,4293>>, <<4295,4295>>, <<4301,4301>>, <<4304,4346>>,
   <<4349,4351>>, <<5024,5109>>, <<5112,5117>>, <<7296,7304>>, <<7312,7354>>,
   <<7357,7359>>, <<7424,7615>>, <<7680,7957>>, <<7960,7965>>, <<7968,8005>>,
   <<8008,8013>>, <<8016,8023>>, <<8025,8025>>, <<8027,8027>>, <<8029,8029>>,
   <<8031,8061>>, <<8064,8116>>, <<8118,8124>>, <<8126,8126>>, <<8130,8132>>,
   <<8134,8140>>, <<8144,8147>>, <<8150,8155>>, <<8160,8172>>, <<8178,8180>>,
   <<8182,8188>>, <<8305,8305>>, <<8319,8319>>, <<8336,8348>>, <<8450,8450>>,
   <<8455,8455>>, <<8458,8467>>, <<8469,8469>>, <<8473,8477>>, <<8484,8484>>,
   <<8486,8486>>, <<8488,8488>>, <<8490,8493>>, <<8495,8500>>, <<8505,8505>>,
   <<8508,8511>>, <<8517,8521>>, <<8526,8526>>, <<8544,8575>>, <<8579,8580>>,
   <<9398,9449>>, <<11264,11492>>, <<11499,11502>>, <<11506,11507>>,
   <<11520,11557>>, <<11559,11559>>, <<11565,11565>>, <<42560,42605>>,
   <<42624,42653>>, <<42786,42887>>, <<42891,42894>>, <<42896,42954>>,
   <<42960,42961>>, <<42963,42963>>, <<42965,42969>>, <<42997,42998>>,
   <<43000,43002>>, <<43824,43866>>, <<43868,43880>>, <<43888,43967>>,
   <<64256,64262>>, <<64275,64279>>, <<65313,65338>>, <<65345,65370>>,
   <<66560,66639>>, <<66736,66771>>, <<66776,66811>>, <<66928,66938>>,
   <<66940,66954>>, <<66956,66962>>, <<66964,66965>>, <<66967,66977>>,
   <<66979,66993>>, <<66995,67001>>, <<67003,67004>>, <<67456,67456>>,
   <<67459,67461>>, <<67463,67504>>, <<67506,67514>>, <<68736,68786>>,
   <<68800,68850>>, <<71840,71903>>, <<93760,93823>>, <<119808,119892>>,
   <<119894,119964>>, <<119966,119967>>, <<119970,119970>>, <<119973,119974>>,
   <<119977,119980>>, <<119982,119993>>, <<119995,119995>>, <<119997,120003>>,
   <<120005,120069>>, <<120071,120074>>, <<120077,120084>>, <<120086,120092>>,
   <<120094,120121>>, <<120123,120126>>, <<120128,120132>>, <<120134,120134>>,
   <<120138,120144>>, <<120146,120485>>, <<120488,120512>>, <<120514,120538>>,
   <<120540,120570>>, <<120572,120596>>, <<120598,120628>>, <<120630,120654>>,
   <<120656,120686>>, <<120688,120712>>, <<120714,120744>>, <<120746,120770>>,
   <<120772,120779>>, <<122624,122633>>, <<122635,122654>>, <<125184,125251>>,
   <<127280,127305>>, <<127312,127337>>, <<127344,127369>>>>

\* the code points with the property Case_Ignorable, as ranges <<lo, hi>>
CaseIgnorableRanges ==
  <<<<39,39>>, <<46,46>>, <<58,58>>, <<94,94>>, <<96,96>>, <<168,168>>,
   <<173,173>>, <<175,175>>, <<180,180>>, <<183,184>>, <<688,879>>,
   <<884,885>>, <<890,890>>, <<900,901>>, <<903,903>>, <<1155,1161>>,
   <<1369,1369>>, <<1375,1375>>, <<1425,1469>>, <<1471,1471>>, <<1473,1474>>,
   <<1476,1477>>, <<1479,1479>>, <<1524,1524>>, <<1536,1541>>, <<1552,1562>>,
   <<1564,1564>>, <<1600,1600>>, <<1611,1631>>, <<1648,1648>>, <<1750,1757>>,
   <<1759,1768>>, <<1770,1773>>, <<1807,1807>>, <<1809,1809>>, <<1840,1866>>,
   <<1958,1968>>, <<2027,2037>>, <<2042,2042>>, <<2045,2045>>, <<2070,2093>>,
   <<2137,2139>>, <<2184,2184>>, <<2192,2193>>, <<2200,2207>>, <<2249,2306>>,
   <<2362,2362>>, <<2364,2364>>, <<2369,2376>>, <<2381,2381>>, <<2385,2391>>,
   <<2402,2403>>, <<2417,2417>>, <<2433,2433>>, <<2492,2492>>, <<2497,2500>>,
   <<2509,2509>>, <<2530,2531>>, <<2558,2558>>, <<2561,2562>>, <<2620,2620>>,
   <<2625,2626>>, <<2631,2632>>, <<2635,2637>>, <<2641,2641>>, <<2672,2673>>,
   <<2677,2677>>, <<2689,2690>>, <<2748,2748>>, <<2753,2757>>, <<2759,2760>>,
   <<2765,2765>>, <<2786,2787>>, <<2810,2815>>, <<2817,2817>>, <<2876,2876>>,
   <<2879,2879>>, <<2881,2884>>, <<2893,2893>>, <<2901,2902>>, <<2914,2915>>,
   <<2946,2946>>, <<3008,3008>>, <<3021,3021>>, <<3072,3072>>, <<3076,3076>>,
   <<3132,3132>>, <<3134,3136>>, <<3142,3144>>, <<3146,3149>>, <<3157,3158>>,
   <<3170,3171>>, <<3201,3201>>, <<3260,3260>>, <<3263,3263>>, <<3270,3270>>,
   <<3276,3277>>, <<3298,3299>>, <<3328,3329>>, <<3387,3388>>, <<3393,3396>>,
   <<3405,3405>>, <<3426,3427>>, <<3457,3457>>, <<3530,3530>>, <<3538,3540>>,
   <<3542,3542>>, <<3633,3633>>, <<3636,3642>>, <<3654,3662>>, <<3761,3761>>,
   <<3764,3772>>, <<3782,3782>>, <<3784,3789>>, <<3864,3865>>, <<3893,3893>>,
   <<3895,3895>>, <<3897,3897>>, <<3953,3966>>, <<3968,3972>>, <<3974,3975>>,
   <<3981,3991>>, <<3993,4028>>, <<4038,4038>>, <<4141,4144>>, <<4146,4151>>,
   <<4153,4154>>, <<4157,4158>>, <<4184,4185>>, <<4190,4192>>, <<4209,4212>>,
   <<4226,4226>>, <<4229,4230>>, <<4237,4237>>, <<4253,4253>>, <<4348,4348>>,
   <<4957,4959>>, <<5906,5908>>, <<5938,5939>>, <<5970,5971>>, <<6002,6003>>,
   <<6068,6069>>, <<6071,6077>>, <<6086,6086>>, <<6089,6099>>, <<6103,6103>>,
   <<6109,6109>>, <<6155,6159>>, <<6211,6211>>, <<6277,6278>>, <<6313,6313>>,
   <<6432,6434>>, <<6439,6440>>, <<6450,6450>>, <<6457,6459>>, <<6679,6680>>,
   <<6683,6683>>, <<6742,6742>>, <<6744,6750>>, <<6752,6752>>, <<6754,6754>>,
   <<6757,6764>>, <<6771,6780>>, <<6783,6783>>, <<6823,6823>>, <<6832,6862>>,
   <<6912,6915>>, <<6964,6964>>, <<6966,6970>>, <<6972,6972>>, <<6978,6978>>,
   <<7019,7027>>, <<7040,7041>>, <<7074,7077>>, <<7080,7081>>, <<7083,7085>>,
   <<7142,7142>>, <<7144,7145>>, <<7149,7149>>, <<7151,7153>>, <<7212,7219>>,
   <<7222,7223>>, <<7288,7293>>, <<7376,7378>>, <<7380,7392>>, <<7394,7400>>,
   <<7405,7405>>, <<7412,7412>>, <<7416,7417>>, <<7468,7530>>, <<7544,7544>>,
   <<7579,7679>>, <<8125,8125>>, <<8127,8129>>, <<8141,8143>>, <<8157,8159>>,
   <<8173,8175>>, <<8189,8190>>, <<8203,8207>>, <<8216,8217>>, <<8228,8228>>,
   <<8231,8231>>, <<8234,8238>>, <<8288,8292>>, <<8294,8303>>, <<8305,8305>>,
   <<8319,8319>>, <<8336,8348>>, <<8400,8432>>, <<11388,11389>>,
   <<11503,11505>>, <<11631,11631>>, <<11647,11647>>, <<11744,11775>>,
   <<11823,11823>>, <<12293,12293>>, <<12330,12333>>, <<12337,12341>>,
   <<12347,12347>>, <<12441,12446>>, <<12540,12542>>, <<40981,40981>>,
   <<42232,42237>>, <<42508,42508>>, <<42607,42610>>, <<42612,42621>>,
   <<42623,42623>>, <<42652,42655>>, <<42736,42737>>, <<42752,42785>>,
   <<42864,42864>>, <<42888,42890>>, <<42994,42996>>, <<43000,43001>>,
   <<43010,43010>>, <<43014,43014>>, <<43019,43019>>, <<43045,43046>>,
   <<43052,43052>>, <<43204,43205>>, <<43232,43249>>, <<43263,43263>>,
   <<43302,43309>>, <<43335,43345>>, <<43392,43394>>, <<43443,43443>>,
   <<43446,43449>>, <<43452,43453>>, <<43471,43471>>, <<43493,43494>>,
   <<43561,43566>>, <<43569,43570>>, <<43573,43574>>, <<43587,43587>>,
   <<43596,43596>>, <<43632,43632>>, <<43644,43644>>, <<43696,43696>>,
   <<43698,43700>>, <<43703,43704>>, <<43710,43711>>, <<43713,43713>>,
   <<43741,43741>>, <<43756,43757>>, <<43763,43764>>, <<43766,43766>>,
   <<43867,43871>>, <<43881,43883>>, <<44005,44005>>, <<44008,44008>>,
   <<44013,44013>>, <<64286,64286>>, <<64434,64450>>, <<65024,65039>>,
   <<65043,65043>>, <<65056,65071>>, <<65106,65106>>, <<65109,65109>>,
   <<65279,65279>>, <<65287,65287>>, <<65294,65294>>, <<65306,65306>>,
   <<65342,65342>>, <<65344,65344>>, <<65392,65392>>, <<65438,65439>>,
   <<65507,65507>>, <<65529,65531>>, <<66045,66045>>, <<66272,66272>>,
   <<66422,66426>>, <<67456,67461>>, <<67463,67504>>, <<67506,67514>>,
   <<68097,68099>>, <<68101,68102>>, <<68108,68111>>, <<68152,68154>>,
   <<68159,68159>>, <<68325,68326>>, <<68900,68903>>, <<69291,69292>>,
   <<69446,69456>>, <<69506,69509>>, <<69633,69633>>, <<69688,69702>>,
   <<69744,69744>>, <<69747,69748>>, <<69759,69761>>, <<69811,69814>>,
   <<69817,69818>>, <<69821,69821>>, <<69826,69826>>, <<69837,69837>>,
   <<69888,69890>>, <<69927,69931>>, <<69933,69940>>, <<70003,70003>>,
   <<70016,70017>>, <<70070,70078>>, <<70089,70092>>, <<70095,70095>>,
   <<70191,70193>>, <<70196,70196>>, <<70198,70199>>, <<70206,70206>>,
   <<70367,70367>>, <<70371,70378>>, <<70400,70401>>, <<70459,70460>>,
   <<70464,70464>>, <<70502,70508>>, <<70512,70516>>, <<70712,70719>>,
   <<70722,70724>>, <<70726,70726>>, <<70750,70750>>, <<70835,70840>>,
   <<70842,70842>>, <<70847,70848>>, <<70850,70851>>, <<71090,71093>>,
   <<71100,71101>>, <<71103,71104>>, <<71132,71133>>, <<71219,71226>>,
   <<71229,71229>>, <<71231,71232>>, <<71339,71339>>, <<71341,71341>>,
   <<71344,71349>>, <<71351,71351>>, <<71453,71455>>, <<71458,71461>>,
   <<71463,71467>>, <<71727,71735>>, <<71737,71738>>, <<71995,71996>>,
   <<71998,71998>>, <<72003,72003>>, <<72148,72151>>, <<72154,72155>>,
   <<72160,72160>>, <<72193,72202>>, <<72243,72248>>, <<72251,72254>>,
   <<72263,72263>>, <<72273,72278>>, <<72281,72283>>, <<72330,72342>>,
   <<72344,72345>>, <<72752,72758>>, <<72760,72765>>, <<72767,72767>>,
   <<72850,72871>>, <<72874,72880>>, <<72882,72883>>, <<72885,72886>>,
   <<73009,73014>>, <<73018,73018>>, <<73020,73021>>, <<73023,73029>>,
   <<73031,73031>>, <<73104,73105>>, <<73109,73109>>, <<73111,73111>>,
   <<73459,73460>>, <<78896,78904>>, <<92912,92916>>, <<92976,92982>>,
   <<92992,92995>>, <<94031,94031>>, <<94095,94111>>, <<94176,94177>>,
   <<94179,94180>>, <<110576,110579>>, <<110581,110587>>, <<110589,110590>>,
   <<113821,113822>>, <<113824,113827>>, <<118528,118573>>, <<118576,118598>>,
   <<119143,119145>>, <<119155,119170>>, <<119173,119179>>, <<119210,119213>>,
   <<119362,119364>>, <<121344,121398>>, <<121403,121452>>, <<121461,121461>>,
   <<121476,121476>>, <<121499,121503>>, <<121505,121519>>, <<122880,122886>>,
   <<122888,122904>>, <<122907,122913>>, <<122915,122916>>, <<122918,122922>>,
   <<123184,123197>>, <<123566,123566>>, <<123628,123631>>, <<125136,125142>>,
   <<125252,125259>>, <<127995,127999>>, <<917505,917505>>, <<917536,917631>>,
   <<917760,917999>>>>

InRanges(cp, ranges) ==
  \E i \in 1..Len(ranges) : ranges[i][1] <= cp /\ cp <= ranges[i][2]

IsCased(cp) == InRanges(cp, CasedRanges)

IsCaseIgnorable(cp) == InRanges(cp, CaseIgnorableRanges)

InRun(cp, run) == run[1] <= cp /\ cp <= run[2] /\ (cp - run[1]) % run[3] = 0

\* the full lower-case mapping of one code point: one code point, but for
\* U+0130, which lowers to "i" and a combining dot
ToLowerFull(cp) ==
  IF cp = 304 THEN <<105, 775>>
  ELSE IF \E i \in 1..Len(LowerRuns) : InRun(cp, LowerRuns[i])
  THEN LET run == LowerRuns[CHOOSE i \in 1..Len(LowerRuns) : InRun(cp, LowerRuns[i])]
       IN <<run[4] + (cp - run[1])>>
  ELSE <<cp>>

\* c.lower() of one character, a text of one or two characters
LowerChar(c) ==
  LET cp == CodePoint(c)
      l == ToLowerFull(cp)
  IN IF l = <<cp>> THEN <<c>> ELSE [i \in 1..Len(l) |-> Chr(l[i])]

\* a capital sigma lowers to the final sigma when the nearest character
\* before it that is not case-ignorable is cased, and the nearest one after
\* it, if any, is not
FinalSigma(t, i) ==
  LET before == {j \in 1..(i - 1) : ~IsCaseIgnorable(CodePoint(t[j]))}
      after == {j \in (i + 1)..Len(t) : ~IsCaseIgnorable(CodePoint(t[j]))}
      b == CHOOSE j \in before : \A k \in before : k <= j
      a == CHOOSE j \in after : \A k \in after : j <= k
  IN /\ before # {}
     /\ IsCased(CodePoint(t[b]))
     /\ after = {} \/ ~IsCased(CodePoint(t[a]))

LowerAt(t, i) ==
  IF CodePoint(t[i]) = 931
  THEN <<Chr(IF FinalSigma(t, i) THEN 962 ELSE 963)>>
  ELSE LowerChar(t[i])

\* the lowered characters a to b of t, one after the other
RECURSIVE LowerRange(_, _, _)
LowerRange(t, a, b) ==
  IF a > b THEN <<>>
  ELSE IF a = b THEN LowerAt(t, a)
  ELSE LowerRange(t, a, (a + b) \div 2) \o LowerRange(t, ((a + b) \div 2) + 1, b)

\* str.lower() of a text spelled character by character
Lower(t) == LowerRange(t, 1, Len(t))

\* the bytes os.fsencode gives a character: its UTF-8 encoding, and the
\* one byte it stands for when it is a surrogate U+DC80..U+DCFF
EscapedByte(cp) == 56448 <= cp /\ cp <= 56575

Surrogate(cp) == 55296 <= cp /\ cp <= 57343

Utf8Len(cp) ==
  IF cp < 128 THEN 1 ELSE IF cp < 2048 THEN 2 ELSE IF cp < 65536 THEN 3 ELSE 4

FsLen(c) ==
  IF Len(c) = 1 THEN 1
  ELSE IF EscapedByte(CodePoint(c)) THEN 1 ELSE Utf8Len(CodePoint(c))

\* len(os.fsencode(name))
FsBytes(name) ==
  LET count(k) == Cardinality({i \in 1..Len(name) : FsLen(name[i]) = k})
  IN count(1) + 2 * count(2) + 3 * count(3) + 4 * count(4)

\* os.fsencode raises UnicodeEncodeError: a surrogate that stands for no byte
FsEncodeFails(name) ==
  \E i \in 1..Len(name) :
    /\ Len(name[i]) > 1
    /\ Surrogate(CodePoint(name[i]))
    /\ ~EscapedByte(CodePoint(name[i]))

\* str.rfind(c) + 1: the last position of c in t, 0 when there is none
LastIndexOf(t, c) ==
  IF \E i \in 1..Len(t) : t[i] = c
  THEN CHOOSE i \in 1..Len(t) : t[i] = c /\ \A j \in (i+1)..Len(t) : t[j] # c
  ELSE 0

\* os.path.basename(p): what follows the last "/"
Basename(f) == SubSeq(f, LastIndexOf(f, "/") + 1, Len(f))

\* where the components of a path start and end: position 0, the
\* separators, and the position after the last character
Bounds(f) == {0, Len(f) + 1} \cup {i \in 1..Len(f) : f[i] = "/"}

\* the component of f that starts after the bound a
Component(f, a) ==
  SubSeq(f, a + 1, (CHOOSE b \in Bounds(f) :
                      b > a /\ \A c \in Bounds(f) : c > a => b <= c) - 1)

\* where the parts pathlib keeps of a path start: it drops the empty
\* components and the "." components
PathParts(f) ==
  {a \in Bounds(f) : a <= Len(f) /\ Component(f, a) \notin {<<>>, <<".">>}}

\* Path(p).name: the last part, "" for a path without parts
PathName(f) ==
  IF PathParts(f) = {} THEN <<>>
  ELSE Component(f, CHOOSE a \in PathParts(f) : \A b \in PathParts(f) : b <= a)

\* Path(p).suffix: from the last dot of the name, unless the dot is the
\* first or the last character of the name
Suffix(f) ==
  LET name == PathName(f)
      i == LastIndexOf(name, ".")
  IN IF 1 < i /\ i < Len(name) THEN SubSeq(name, i, Len(name)) ELSE <<>>

ALLOWED_EXTENSIONS ==
  { <<".","p","d","f">>, <<".","d","o","c">>, <<".","d","o","c","x">> }

\* a faulty variant: the extension is never refused
ExtAcceptsAll(filename) == TRUE

\* line 134-135: ext = Path(resume.filename).suffix.lower(); ext in ALLOWED
ExtAllowed(filename) == Lower(Suffix(filename)) \in ALLOWED_EXTENSIONS

\* line 131: len(content) > MAX_UPLOAD_MB * 1024 * 1024
TooLarge(n) == n > MAX_UPLOAD_MB * MiB

\* ------------------------------------------------------ files on disk
\* A path holds nothing, bytes that are no zip archive (load_workbook
\* raises BadZipFile), a zip archive whose XML does not parse (load_workbook
\* raises ParseError), a workbook (the rows of its active sheet, a row being
\* the values its cells read back with, None for a gap or a cell without
\* a value), or a directory, empty or not.
File(kind, data, rows) == [kind |-> kind, data |-> data, rows |-> rows]
Absent == File("absent", "", <<>>)
Garbage(d) == File("bytes", d, <<>>)
Xlsx(rows) == File("xlsx", "", rows)
Directory == File("dir", "", <<>>)
BrokenXml == File("badxml", "a zip archive whose XML does not parse", <<>>)
FullDirectory == File("dir", "entries", <<>>)

\* ------------------------------------------- openpyxl's worksheet
\* rows: the cells of the sheet, row by row (a cell read through ws["A1"]
\* exists from then on, with the value None); cur: _current_row.
Sheet(rows, cur) == [rows |-> rows, cur |-> cur]

\* Workbook().active
EmptySheet == Sheet(<<>>, 0)

Max(a, b) == IF a >= b THEN a ELSE b

PadRows(rows, n) == [i \in 1..Max(Len(rows), n) |-> IF i <= Len(rows) THEN rows[i] ELSE <<>>]

PadCells(row, n) == [c \in 1..Max(Len(row), n) |-> IF c <= Len(row) THEN row[c] ELSE None]

\* ws.max_row: the highest row that holds a cell, 1 for a sheet without cells
MaxRow(ws) ==
  IF \E i \in 1..Len(ws.rows) : ws.rows[i] # <<>>
  THEN CHOOSE i \in 1..Len(ws.rows) :
         ws.rows[i] # <<>> /\ \A j \in (i+1)..Len(ws.rows) : ws.rows[j] = <<>>
  ELSE 1

\* ws["A1"].value
CellValue(ws, r, c) ==
  IF r <= Len(ws.rows) /\ c <= Len(ws.rows[r]) THEN ws.rows[r][c] ELSE None

\* ws["A1"]: reading a cell that does not exist creates it, and
\* Worksheet._add_cell moves _current_row to its row
TouchCell(ws, r, c) ==
  IF r <= Len(ws.rows) /\ c <= Len(ws.rows[r]) THEN ws
  ELSE LET padded == PadRows(ws.rows, r)
       IN Sheet([padded EXCEPT ![r] = PadCells(padded[r], c)], Max(r, ws.cur))

\* a form value that is no text: a field sent as a file part, which
\* form.get returns as an UploadFile
FileValue == <<"<UploadFile>">>

\* a piece that spells one character by its code point
IsEscape(c) == Len(c) >= 4 /\ SubSeq(c, 1, 2) \in {"\\x", "\\u", "\\U"}

\* the number of characters of a piece
CharLen(c) == IF IsEscape(c) THEN 1 ELSE Len(c)

\* len() of the pieces a to b of a text
RECURSIVE SumLen(_, _, _)
SumLen(t, a, b) ==
  IF a > b THEN 0
  ELSE IF a = b THEN CharLen(t[a])
  ELSE LET m == (a + b) \div 2 IN SumLen(t, a, m) + SumLen(t, m + 1, b)

\* value[:n]
Truncate(t, n) ==
  IF SumLen(t, 1, Len(t)) <= n THEN t
  ELSE LET k == CHOOSE i \in 1..Len(t) :
                  SumLen(t, 1, i) > n /\ SumLen(t, 1, i - 1) <= n
           keep == n - SumLen(t, 1, k - 1)
       IN SubSeq(t, 1, k - 1)
            \o (IF keep = 0 THEN <<>> ELSE <<SubSeq(t[k], 1, keep)>>)

\* the code points of openpyxl's ILLEGAL_CHARACTERS_RE: the control
\* characters but tab, line feed and carriage return
IllegalCodes == (0..8) \cup {11, 12} \cup (14..31)

IllegalChar(c) == (c = "\f" \/ IsEscape(c)) /\ CodePoint(c) \in IllegalCodes

\* Cell.check_string(value): the text is cut to MAX_CELL characters
BindValue(v) == IF v = None THEN None ELSE Truncate(v, MAX_CELL)

\* Cell(value=v) raises: ValueError for a value that is no text,
\* IllegalCharacterError for a text that, cut to MAX_CELL characters,
\* holds a control character
CellRefused(v) ==
  \/ v = FileValue
  \/ v # None /\ \E i \in 1..Len(BindValue(v)) : IllegalChar(BindValue(v)[i])

\* ws.append(values) raises: a value is refused
AppendFails(vals) == \E c \in 1..Len(vals) : CellRefused(vals[c])

\* the values as the cells hold them
BoundCells(vals) == [c \in 1..Len(vals) |-> BindValue(vals[c])]

\* ws.append(values) of values no cell refuses: they go to row
\* _current_row + 1
WsAppend(ws, vals) ==
  LET idx == ws.cur + 1
      padded == PadRows(ws.rows, idx)
      old == padded[idx]
      new == [c \in 1..Max(Len(old), Len(vals)) |->
                IF c <= Len(vals) THEN BoundCells(vals)[c] ELSE old[c]]
  IN Sheet([padded EXCEPT ![idx] = new], idx)

RECURSIVE TrimCells(_)
TrimCells(row) ==
  IF row # <<>> /\ row[Len(row)] = None
  THEN TrimCells(SubSeq(row, 1, Len(row) - 1)) ELSE row

RECURSIVE TrimRows(_)
TrimRows(rows) ==
  IF rows # <<>> /\ rows[Len(rows)] = <<>>
  THEN TrimRows(SubSeq(rows, 1, Len(rows) - 1)) ELSE rows

\* the cells of a row as the writer stores them: one that holds "" is
\* written without a value and reads back as None
SavedCells(row) == [c \in 1..Len(row) |-> IF row[c] = <<>> THEN None ELSE row[c]]

\* wb.save(path): a cell without a value is not written
Save(ws) ==
  Xlsx(TrimRows([i \in 1..Len(ws.rows) |-> SavedCells(TrimCells(ws.rows[i]))]))

\* load_workbook(path).active of a readable workbook: _current_row is
\* max_row when the sheet holds cells and 0 when it holds none
Load(file) == Sheet(file.rows, IF file.rows = <<>> THEN 0 ELSE Len(file.rows))

\* line 61: load_workbook raises one of the errors line 66 catches
\* (BadZipFile for bytes that are no archive, IsADirectoryError, an
\* OSError, for a directory)
LoadFails(file) == file.kind \in {"bytes", "dir"}

\* line 61: load_workbook raises an error line 66 does not catch
\* (ParseError, a SyntaxError, for an archive whose XML does not parse)
LoadRaises(file) == file.kind = "badxml"

\* line 82: wb.save(path) opens the path for writing, which raises
\* IsADirectoryError when it is a directory
SaveFails(file) == file.kind = "dir"

\* ------------------------------------------------ the submission record
Required == <<"name", "email", "phone", "location", "start_date", "visa">>

\* the keys of the dict built at lines 149-161, in insertion order
Keys == <<"timestamp", "name", "email", "phone", "location", "start_date",
          "visa", "expertise", "links", "why_kedorion", "resume_filename">>

\* list(keys) as a row of cells
KeyRow == [i \in 1..Len(Keys) |-> <<Keys[i]>>]

\* _new_wb_with_header(keys)
NewWbWithHeader == WsAppend(EmptySheet, KeyRow)

\* [row[k] for k in keys]
RowOf(rec) == [i \in 1..Len(Keys) |-> rec[Keys[i]]]

\* a faulty variant: the rename always fails
RenameNever(src, dst) == FALSE

\* EXCEL_PATH.rename(backup) succeeds: POSIX rename moves to a free path,
\* replaces a file by a file and an empty directory by a directory, and
\* fails for a file onto a directory, a directory onto a file, a directory
\* onto a directory with entries, and a source that is not there
RenameOk(src, dst) ==
  /\ src.kind # "absent"
  /\ \/ dst.kind = "absent"
     \/ src.kind # "dir" /\ dst.kind \notin {"absent", "dir"}
     \/ src.kind = "dir" /\ dst = Directory

\* lines 59-75 of append_to_excel, for a log whose load does not raise
\* past line 66: the workbook to append to, and the log and backup paths
\* as the open leaves them.  Every branch yields a workbook, so the
\* fallback of lines 77-79 is never taken.
OpenWorkbook(log, backup) ==
  IF log.kind = "absent"
  THEN [wb |-> NewWbWithHeader, log |-> log, backup |-> backup, how |-> "created"]
  ELSE IF LoadFails(log)
  THEN IF RenameOk(log, backup)
       THEN [wb |-> NewWbWithHeader, log |-> Absent, backup |-> log, how |-> "recovered"]
       ELSE [wb |-> NewWbWithHeader, log |-> log, backup |-> backup, how |-> "recovered"]
  ELSE LET ws == Load(log)
       IN IF MaxRow(ws) = 1 /\ CellValue(ws, 1, 1) = None
          THEN [wb |-> WsAppend(TouchCell(ws, 1, 1), KeyRow), log |-> log,
                backup |-> backup, how |-> "headed"]
          ELSE [wb |-> ws, log |-> log, backup |-> backup, how |-> "loaded"]

\* ------------------------------------------------------- submissions
GoodValue ==
  [k \in Range(Required) |->
     CASE k = "name" -> <<"Ana">>
       [] k = "email" -> <<"a@x.com">>
       [] k = "phone" -> <<"123">>
       [] k = "location" -> <<"Berlin">>
       [] k = "start_date" -> <<"2024-01-01">>
       [] OTHER -> <<"yes">>]

\* what a client can send for a required field: nothing, "", " ", a value
FieldChoice(k, c) ==
  CASE c = 0 -> GoodValue[k]
    [] c = 1 -> None
    [] c = 2 -> <<>>
    [] OTHER -> <<" ">>

\* the forms with at most MaxOdd fields that are not plainly filled
Forms ==
  {[k \in Range(Required) |-> FieldChoice(k, c[k])] :
     c \in {d \in [Range(Required) -> 0..3] :
              Cardinality({k \in Range(Required) : d[k] # 0}) <= MaxOdd}}

LimitBytes == MAX_UPLOAD_MB * MiB

Upload(present, filename, size) ==
  [present |-> present, filename |-> filename, size |-> size]

NoFile == Upload(FALSE, <<>>, 0)
CvPdf == <<"c","v",".","p","d","f">>
GoodResume == Upload(TRUE, CvPdf, 1024)
EmptyNameResume == Upload(TRUE, <<>>, 1024)
BigExe == Upload(TRUE, <<"c","v",".","e","x","e">>, LimitBytes + 1)

\* a name of NAME_MAX + 1 characters
LongPdf == [i \in 1..(NAME_MAX - 3) |-> "a"] \o <<".","p","d","f">>

\* a name of 130 characters and NAME_MAX + 1 bytes
AccentsPdf == [i \in 1..((NAME_MAX - 3) \div 2) |-> "\\xe9"] \o <<".","p","d","f">>

Filenames ==
  { CvPdf,
    <<"C","V",".","P","D","F">>,
    <<"a","/","c","v",".","p","d","f">>,
    <<"c","v",".","e","x","e">>,
    <<"c","v">>,
    <<"x",".","p","d","f","/">>,
    <<".","p","d","f">>,
    <<"c","v",".","D","o","c","x">>,
    <<"b",".","d","o","c">>,
    <<"a",".","p","d","f","/",".">>,
    <<"a","\\x00",".","p","d","f">>,
    <<"a","\f",".","p","d","f">>,
    <<"r","\\xe9","s",".","P","D","F">>,
    <<"c","v",".","D","O","C","\\u212a">>,
    <<"c","v",".","P","D","F","\\u03a3">>,
    LongPdf,
    AccentsPdf }

Sizes == {1024, LimitBytes, LimitBytes + 1}

\* a text, n times doubled
RECURSIVE Doubled(_, _)
Doubled(w, n) == IF n = 0 THEN w ELSE Doubled(w \o w, n - 1)

\* a word of MAX_CELL + 1 characters
LongWord == Doubled("a", 15)

Token == <<"tok">>

\* (links, info, expertise[]) as sent
Optionals ==
  { <<None, None, <<>>>>,
    <<<<" ", "http://x", " ">>, <<" ">>, << <<"ML">> >>>>,
    <<<<"http://x">>, <<"because", " ">>, << <<"ML">>, <<"Web">> >>>>,
    <<<<"\f", "http://x", "\\x0b">>, <<"\\xa0", "text", "\r", "\n">>, << <<"ML">> >>>>,
    <<<<"http://x", "\\x0b", "y">>, None, <<>>>>,
    <<<<"a", "\t", "b">>, <<"text", "\\x1f">>, <<>>>>,
    <<None, <<LongWord, "\\x01">>, << <<"ML">> >>>>,
    <<FileValue, None, <<>>>>,
    <<None, <<"text">>, << <<"ML">>, FileValue >>>> }

\* a POST /apply as the handler receives it
Request(fields, resume, token, opt) ==
  [sent |-> TRUE, fields |-> fields, resume |-> resume, token |-> token,
   links |-> opt[1], info |-> opt[2], expertise |-> opt[3]]

GoodForm == [k \in Range(Required) |-> GoodValue[k]]
NoOptionals == <<None, None, <<>>>>

\* a POST without any field
EmptyRequest == Request([k \in Range(Required) |-> None], NoFile, None, NoOptionals)

\* no POST at all: the handler is never entered
NoRequest == [EmptyRequest EXCEPT !.sent = FALSE]

\* forms with a value no cell takes: a control character, a file part
RefusedForms ==
  { [GoodForm EXCEPT !["name"] = <<"A", "\\x01">>],
    [GoodForm EXCEPT !["visa"] = <<"\f">>],
    [GoodForm EXCEPT !["phone"] = FileValue] }

OneOdd == {f \in Forms : Cardinality({k \in Range(Required) : f[k] # GoodValue[k]}) <= 1}

RichRequests ==
  {Request(f, r, None, NoOptionals) :
     f \in Forms, r \in {GoodResume, NoFile, EmptyNameResume, BigExe}}
  \cup {Request(f, r, Token, NoOptionals) :
     f \in OneOdd, r \in {GoodResume, NoFile, EmptyNameResume, BigExe}}
  \cup {Request(GoodForm, Upload(TRUE, fn, sz), t, NoOptionals) :
     fn \in Filenames, sz \in Sizes, t \in {None, Token}}
  \cup {Request(GoodForm, GoodResume, t, o) :
     t \in {None, <<>>, Token}, o \in Optionals}
  \cup {Request(f, GoodResume, None, NoOptionals) : f \in RefusedForms}
  \cup {EmptyRequest}

\* the submissions that meet in flight: two that name the same file, one
\* whose name holds a control character, one with the optional fields
ConcRequests ==
  { Request(GoodForm, GoodResume, None, NoOptionals),
    Request([GoodForm EXCEPT !["name"] = <<"Bob">>],
            Upload(TRUE, <<"a","/","c","v",".","p","d","f">>, 2048), Token, NoOptionals),
    Request([GoodForm EXCEPT !["name"] = <<"Kim", "\\x01">>],
            Upload(TRUE, <<"k",".","p","d","f">>, 1024), None, NoOptionals),
    Request([GoodForm EXCEPT !["name"] = <<"Dan">>],
            Upload(TRUE, <<"b",".","d","o","c">>, 4096), None,
            <<<<" ", "http://x", " ">>, <<" ">>, << <<"ML">>, <<"Web">> >>>>) }

\* form.get(k) for a required field
FormGet(r, k) == r.fields[k]

\* a faulty variant: the file is not looked at
MissingNoResume(r) == SelectSeq(Required, LAMBDA k : ~Truthy(FormGet(r, k)))

\* lines 116-120: the names of the required fields the form lacks, then
\* "resume" when no file with a file name was sent
Missing(r) ==
  SelectSeq(Required, LAMBDA k : ~Truthy(FormGet(r, k)))
    \o (IF ~r.resume.present \/ ~Truthy(r.resume.filename) THEN <<"resume">> ELSE <<>>)

Response(status, message) == [status |-> status, message |-> message]
NoResponse == Response(0, <<>>)

\* line 122
MissingResponse(missing) ==
  Response(400, <<"Missing fields: ">> \o Join(<<", ">>, [i \in 1..Len(missing) |-> <<missing[i]>>]))

\* line 127
RecaptchaResponse == Response(400, <<"reCAPTCHA verification failed.">>)

\* line 132
TooLargeResponse ==
  Response(400, <<"File too large (>", ToString(MAX_UPLOAD_MB), "MB).">>)

\* line 136
UnsupportedResponse ==
  Response(400, <<"Unsupported file type. Please upload PDF/DOC/DOCX.">>)

\* line 164
SuccessResponse == Response(200, <<"Application received. Thank you!">>)

\* a faulty variant: the extension is checked before the size
CheckUploadTypeFirst(up) ==
  IF ~ExtAllowed(up.filename) THEN "type"
  ELSE IF TooLarge(up.size) THEN "large" ELSE "ok"

\* lines 131-136: the size check comes before the extension check
CheckUpload(up) ==
  IF TooLarge(up.size) THEN "large"
  ELSE IF ~ExtAllowed(up.filename) THEN "type" ELSE "ok"

\* an exception the handler does not catch
ServerError == Response(500, <<"Internal Server Error">>)

\* ------------------------------------------------- verify_recaptcha
\* what the siteverify call can come back with: an exception of httpx (a
\* network error, the 10 s timeout), a body r.json() cannot parse, or a
\* JSON object with or without "success" and "score"
Reply(kind, success, score, tenths) ==
  [kind |-> kind, success |-> success, score |-> score, tenths |-> tenths]

NoReply == Reply("none", "absent", "absent", 0)

NetOutcomes ==
  { Reply("error", "absent", "absent", 0),
    Reply("malformed", "absent", "absent", 0),
    Reply("json", "true", "number", 9),
    Reply("json", "true", "number", 4),
    Reply("json", "true", "number", 3),
    Reply("json", "true", "absent", 0),
    Reply("json", "true", "nonnumeric", 0),
    Reply("json", "false", "number", 9),
    Reply("json", "absent", "number", 9) }

\* line 87: the call is made only with a secret and a token
NeedsCall(sec, token) == Truthy(sec) /\ Truthy(OrEmpty(token))

\* a faulty variant: a failed call counts as a pass
VerdictFailOpen(reply) ==
  \/ reply.kind # "json"
  \/ reply.success = "true" /\ reply.score = "number" /\ reply.tenths >= MinScoreTenths

\* lines 95-98: bool(data.get("success")) and float(data.get("score", 0.0)) >= 0.4,
\* False on any exception
Verdict(reply) ==
  /\ reply.kind = "json"
  /\ reply.success = "true"
  /\ reply.score # "nonnumeric"
  /\ (IF reply.score = "absent" THEN 0 ELSE reply.tenths) >= MinScoreTenths

\* "%02d" of a number below 100
TwoDigits(n) == IF n < 10 THEN "0" \o ToString(n) ELSE ToString(n)

\* datetime.utcnow().isoformat(timespec="seconds") + "Z", t seconds into
\* the first day of 2024 (t below 86400)
IsoZ(t) ==
  <<"2024-01-01T" \o TwoDigits(t \div 3600) \o ":" \o TwoDigits((t \div 60) % 60)
      \o ":" \o TwoDigits(t % 60)>> \o <<"Z">>

\* lines 144-146 raise: ", ".join meets an item that is no text
\* (TypeError), or .strip() a value that is none (AttributeError)
BuildFails(r) ==
  \/ \E i \in 1..Len(r.expertise) : r.expertise[i] = FileValue
  \/ r.links = FileValue
  \/ r.info = FileValue

\* lines 144-161: the record of an accepted submission
BuildRecord(r, safeName, t) ==
  [k \in Range(Keys) |->
     CASE k = "timestamp" -> IsoZ(t)
       [] k = "expertise" -> Join(<<", ">>, r.expertise)
       [] k = "links" -> Strip(OrEmpty(r.links))
       [] k = "why_kedorion" -> Strip(OrEmpty(r.info))
       [] k = "resume_filename" -> safeName
       [] OTHER -> FormGet(r, k)]

NoRecord == [k \in Range(Keys) |-> None]

\* ---------------------------------------------------- upload directory
\* an entry of UPLOAD_DIR: a file with its size, or a directory
Stored(name, size) == [kind |-> "file", name |-> name, size |-> size]

SubDir(name) == [kind |-> "dir", name |-> name, size |-> 0]

\* the names of the files in UPLOAD_DIR
Names(dir) == {f.name : f \in {g \in dir : g.kind = "file"}}

\* a faulty variant: the bytes are never written
WriteBytesDropped(dir, name, size) == dir

\* line 141: path.write_bytes(content) raises instead of writing: the name
\* "" or "." makes the path UPLOAD_DIR itself and ".." its parent
\* (IsADirectoryError), a name of more than NAME_MAX bytes is refused by
\* the file system (OSError), one with a NUL by open (ValueError); a name
\* under which UPLOAD_DIR holds a directory likewise; a name that cannot be
\* encoded is refused by os.fsencode (UnicodeEncodeError)
WriteFails(dir, name) ==
  \/ name \in {<<>>, <<".">>, <<".", ".">>}
  \/ \E f \in dir : f.name = name /\ f.kind = "dir"
  \/ \E i \in 1..Len(name) : name[i] = "\\x00"
  \/ FsEncodeFails(name)
  \/ FsBytes(name) > NAME_MAX

\* line 141: path.write_bytes(content) creates or replaces UPLOAD_DIR/name
WriteBytes(dir, name, size) == {f \in dir : f.name # name} \cup {Stored(name, size)}

\* --------------------------------------------------------------- state
VARIABLES
  secret,      \* RECAPTCHA_SECRET
  logFile,     \* what EXCEL_PATH holds
  backupFile,  \* what EXCEL_PATH.with_suffix(".bad.xlsx") holds
  uploads,     \* the files of UPLOAD_DIR
  running,     \* the request whose coroutine occupies the event loop, or 0
  req,         \* the submission each request carries
  pc,          \* where each request's coroutine stands
  netResp,     \* the siteverify reply waiting for the coroutine
  netCalls,    \* the siteverify calls each request has made
  verdict,     \* what verify_recaptcha returned: "none" before it is called
  rec,         \* the record passed to append_to_excel
  wb,          \* the worksheet append_to_excel holds in memory
  how,         \* the branch of lines 59-75 the request took
  resp         \* the response sent

vars == <<secret, logFile, backupFile, uploads, running, req, pc, netResp,
          netCalls, verdict, rec, wb, how, resp>>

stores == <<uploads, logFile, backupFile>>

Procs == 1..NumProcs

OldPdf == <<"o","l","d",".","p","d","f">>

\* a name UPLOAD_DIR may hold a directory under
DocName == <<"b",".","d","o","c">>

\* a row an earlier accepted submission left in the log
PriorRow(i) ==
  SavedCells(BoundCells(RowOf(
    [BuildRecord(Request([GoodForm EXCEPT !["name"] = <<"Old" \o ToString(i)>>],
                         Upload(TRUE, OldPdf, 512), None, NoOptionals), OldPdf, 0)
     EXCEPT !["timestamp"] = <<"2023-12-31T23:59:59">> \o <<"Z">>])))

WellFormed(n) == Xlsx(<<KeyRow>> \o [i \in 1..n |-> PriorRow(i)])

\* a workbook without cells, and one whose only row lacks its first cell
EmptyXlsx == Xlsx(<<>>)
HeadlessXlsx == Xlsx(<< <<None, <<"x">>>> >>)

NotAZip == Garbage("not a zip archive")

InitLogs ==
  {Absent, NotAZip, BrokenXml, Directory, EmptyXlsx, HeadlessXlsx}
    \cup {WellFormed(n) : n \in 0..MaxInitRows}

InitEnv ==
  /\ secret \in {<<>>, <<"sk">>}
  /\ logFile \in InitLogs
  /\ backupFile \in (IF logFile.kind = "bytes"
                     THEN {Absent, Garbage("an older backup"), Directory}
                     ELSE IF logFile.kind = "dir"
                     THEN {Absent, Garbage("an older backup"), Directory, FullDirectory}
                     ELSE {Absent})
  /\ \E held \in (IF logFile = Absent THEN {{}, {SubDir(DocName)}} ELSE {{}}) :
       uploads = held \cup (IF logFile.kind = "xlsx" /\ Len(logFile.rows) > 1
                           THEN {Stored(OldPdf, 512)} ELSE {})
  /\ running = 0

InitProcs ==
  /\ pc = [p \in Procs |-> IF req[p].sent THEN "form" ELSE "idle"]
  /\ netResp = [p \in Procs |-> NoReply]
  /\ netCalls = [p \in Procs |-> 0]
  /\ verdict = [p \in Procs |-> "none"]
  /\ rec = [p \in Procs |-> NoRecord]
  /\ wb = [p \in Procs |-> EmptySheet]
  /\ how = [p \in Procs |-> "none"]
  /\ resp = [p \in Procs |-> NoResponse]

\* one submission, of any shape
Init ==
  /\ InitEnv
  /\ \E r \in RichRequests : req = [p \in Procs |-> IF p = 1 THEN r ELSE NoRequest]
  /\ InitProcs

\* several submissions in flight at once, with a secret configured and
\* the backup path free or an empty directory
InitConc ==
  /\ InitEnv
  /\ secret # <<>>
  /\ backupFile \in {Absent, Directory}
  /\ req \in [Procs -> ConcRequests]
  /\ InitProcs

\* what the clock can show when a record is built, in seconds into the
\* day: 00:00:00, 10:10:10, ..
ClockTimes == {36610 * t : t \in 0..MaxSecond}

\* ------------------------------------------------------------- actions
\* a faulty variant: the handler gives up the loop while it writes
OccupyNone(p) == 0

\* apply is a coroutine (async def, line 112): once resumed it occupies the
\* event loop until its next await (lines 113, 126, 130); lines 131-164,
\* the synchronous append_to_excel included, hold none
Occupy(p) == p

Finish(p, r) ==
  /\ resp' = [resp EXCEPT ![p] = r]
  /\ pc' = [pc EXCEPT ![p] = "done"]

\* lines 113-126: the form arrives, the required fields are checked and
\* verify_recaptcha is entered
ParseForm(p) ==
  /\ pc[p] = "form"
  /\ running = 0
  /\ LET missing == Missing(req[p])
         token == OrEmpty(req[p].token)
     IN IF missing # <<>>
        THEN /\ Finish(p, MissingResponse(missing))
             /\ UNCHANGED <<netCalls, verdict>>
        ELSE IF NeedsCall(secret, token)
        THEN /\ pc' = [pc EXCEPT ![p] = "verifying"]
             /\ netCalls' = [netCalls EXCEPT ![p] = @ + 1]
             /\ UNCHANGED <<resp, verdict>>
        ELSE /\ pc' = [pc EXCEPT ![p] = "reading"]
             /\ verdict' = [verdict EXCEPT ![p] = "true"]
             /\ UNCHANGED <<resp, netCalls>>
  /\ UNCHANGED <<secret, stores, running, req, netResp, rec, wb, how>>

\* lines 90-94: the siteverify call ends, one way or another
NetReply(p, o) ==
  /\ pc[p] = "verifying"
  /\ netResp[p] = NoReply
  /\ netResp' = [netResp EXCEPT ![p] = o]
  /\ UNCHANGED <<secret, stores, running, req, pc, netCalls, verdict, rec, wb, how, resp>>

\* lines 95-98 and 126-130: verify_recaptcha returns
VerifyReturn(p) ==
  /\ pc[p] = "verifying"
  /\ netResp[p] # NoReply
  /\ running = 0
  /\ netResp' = [netResp EXCEPT ![p] = NoReply]
  /\ IF Verdict(netResp[p])
     THEN /\ verdict' = [verdict EXCEPT ![p] = "true"]
          /\ pc' = [pc EXCEPT ![p] = "reading"]
          /\ UNCHANGED resp
     ELSE /\ verdict' = [verdict EXCEPT ![p] = "false"]
          /\ Finish(p, RecaptchaResponse)
  /\ UNCHANGED <<secret, stores, running, req, netCalls, rec, wb, how>>

\* lines 130-141: the upload is read, its size and its extension are
\* checked, and it is written under its base name; when write_bytes
\* raises, nothing is written and the exception leaves the handler
ReadUpload(p) ==
  /\ pc[p] = "reading"
  /\ running = 0
  /\ LET up == req[p].resume
         safeName == Basename(up.filename)
         check == CheckUpload(up)
     IN IF check = "large"
        THEN Finish(p, TooLargeResponse) /\ UNCHANGED <<uploads, running>>
        ELSE IF check = "type"
        THEN Finish(p, UnsupportedResponse) /\ UNCHANGED <<uploads, running>>
        ELSE IF WriteFails(uploads, safeName)
        THEN Finish(p, ServerError) /\ UNCHANGED <<uploads, running>>
        ELSE /\ uploads' = WriteBytes(uploads, safeName, up.size)
             /\ pc' = [pc EXCEPT ![p] = "written"]
             /\ running' = Occupy(p)
             /\ UNCHANGED resp
  /\ UNCHANGED <<secret, logFile, backupFile, req, netResp, netCalls, verdict, rec, wb, how>>

\* lines 144-161 and 54-79: the record is built and append_to_excel opens,
\* creates or recovers the workbook; an exception of lines 144-146, or one
\* of load_workbook that line 66 does not catch, leaves the handler with
\* the upload written and the log untouched
OpenLog(p, t) ==
  /\ pc[p] = "written"
  /\ running = Occupy(p)
  /\ IF BuildFails(req[p])
     THEN /\ Finish(p, ServerError)
          /\ running' = 0
          /\ UNCHANGED <<logFile, backupFile, rec, wb, how>>
     ELSE /\ rec' = [rec EXCEPT ![p] =
                      BuildRecord(req[p], Basename(req[p].resume.filename), t)]
          /\ IF LoadRaises(logFile)
             THEN /\ Finish(p, ServerError)
                  /\ running' = 0
                  /\ UNCHANGED <<logFile, backupFile, wb, how>>
             ELSE LET o == OpenWorkbook(logFile, backupFile)
                  IN /\ wb' = [wb EXCEPT ![p] = o.wb]
                     /\ how' = [how EXCEPT ![p] = o.how]
                     /\ logFile' = o.log
                     /\ backupFile' = o.backup
                     /\ pc' = [pc EXCEPT ![p] = "opened"]
                     /\ UNCHANGED <<running, resp>>
  /\ UNCHANGED <<secret, uploads, req, netResp, netCalls, verdict>>

\* lines 81-82 and 164: the row is appended, the workbook saved and the
\* success response returned; an append that raises (line 81) saves
\* nothing, and a save that raises (line 82) leaves the path as it was
AppendAndSave(p) ==
  /\ pc[p] = "opened"
  /\ running = Occupy(p)
  /\ IF AppendFails(RowOf(rec[p])) \/ SaveFails(logFile)
     THEN UNCHANGED logFile /\ Finish(p, ServerError)
     ELSE logFile' = Save(WsAppend(wb[p], RowOf(rec[p]))) /\ Finish(p, SuccessResponse)
  /\ wb' = [wb EXCEPT ![p] = EmptySheet]
  /\ running' = 0
  /\ UNCHANGED <<secret, backupFile, uploads, req, netResp, netCalls, verdict, rec, how>>

Next ==
  \E p \in Procs :
    \/ ParseForm(p)
    \/ \E o \in NetOutcomes : NetReply(p, o)
    \/ VerifyReturn(p)
    \/ ReadUpload(p)
    \/ \E t \in ClockTimes : OpenLog(p, t)
    \/ AppendAndSave(p)

Spec == Init /\ [][Next]_vars

SpecConc == InitConc /\ [][Next]_vars

\* ===================================================== the properties
Done200(p) == resp[p].status = 200

\* a log with the header row and full-width data rows
IsWellFormedLog(f) ==
  /\ f.kind = "xlsx"
  /\ Len(f.rows) >= 1
  /\ f.rows[1] = KeyRow
  /\ \A i \in 1..Len(f.rows) : Len(f.rows[i]) = Len(Keys)

\* the row of a record as a saved log holds it
StoredRow(r) == SavedCells(BoundCells(RowOf(r)))

Opens(p) == pc[p] = "written" /\ pc'[p] = "opened"
Saves(p) == pc[p] = "opened" /\ pc'[p] = "done"

\* C1 as claimed: appending to a well-formed log with a header and N data
\* rows leaves the header and the N rows as they were, in order, and adds
\* the new row as the last one: N+1 data rows.
C1_AppendAddsOneRow ==
  [][\A p \in Procs :
       /\ (Opens(p) /\ IsWellFormedLog(logFile)) => logFile' = logFile
       /\ (Saves(p) /\ IsWellFormedLog(logFile)) =>
            logFile' = Xlsx(Append(logFile.rows, StoredRow(rec[p])))]_vars

\* C2 as claimed: with a log that cannot be opened, the submission ends with
\* the backup holding the original bytes, a new log of the header and one
\* data row, and the success response.
C2_BackupAlwaysMade ==
  [][\A p \in Procs :
       /\ (pc[p] = "written" /\ pc'[p] # "written" /\ ~BuildFails(req[p])
             /\ logFile.kind \in {"bytes", "badxml"}) =>
            /\ pc'[p] = "opened"
            /\ backupFile' = logFile
       /\ (Saves(p) /\ how[p] = "recovered" /\ logFile.kind # "dir") =>
            /\ logFile' = Xlsx(<<KeyRow, StoredRow(rec[p])>>)
            /\ backupFile' = backupFile
            /\ resp'[p] = SuccessResponse]_vars

\* the pieces that spell a control character other than tab, line feed
\* and carriage return
ControlPieces ==
  {"\\x00", "\\x01", "\\x02", "\\x03", "\\x04", "\\x05", "\\x06", "\\x07",
   "\\x08", "\\x0b", "\f", "\\x0e", "\\x0f", "\\x10", "\\x11", "\\x12",
   "\\x13", "\\x14", "\\x15", "\\x16", "\\x17", "\\x18", "\\x19", "\\x1a",
   "\\x1b", "\\x1c", "\\x1d", "\\x1e", "\\x1f"}

\* a record the table library takes no row from: a value that is no text,
\* or a control character among the first MAX_CELL characters of a value
Unstorable(r) ==
  \E k \in Range(Keys) :
    \/ r[k] = FileValue
    \/ \E i \in 1..Len(r[k]) : r[k][i] \in ControlPieces /\ SumLen(r[k], 1, i) <= MAX_CELL

\* C2 amended: append_to_excel called once with a log of unparsable bytes
\* moves the bytes to the backup path when the rename succeeds, and leaves
\* both paths as they were when it fails (the backup path is a directory);
\* it then ends with a new log of the header and one data row and the
\* success response, the bytes overwritten if they were not moved, unless
\* the table library refuses a value of the record: then nothing is saved,
\* the log path stays as the rename left it and the answer is the internal
\* error.  With an archive whose XML does not parse the error of the open
\* is not caught: both paths stay as they were and the answer is the
\* internal error.  (A log path that is a directory is another case: it
\* is not bytes, and when it cannot be moved away the save fails.)
C2_BackupBestEffort ==
  [][\A p \in Procs :
       /\ (Opens(p) /\ logFile.kind = "bytes") =>
            IF backupFile.kind # "dir"
            THEN backupFile' = logFile /\ logFile' = Absent
            ELSE backupFile' = backupFile /\ logFile' = logFile
       /\ (Saves(p) /\ how[p] = "recovered" /\ logFile.kind # "dir") =>
            /\ backupFile' = backupFile
            /\ IF Unstorable(rec[p])
               THEN logFile' = logFile /\ resp'[p] = ServerError
               ELSE /\ logFile' = Xlsx(<<KeyRow, StoredRow(rec[p])>>)
                    /\ resp'[p] = SuccessResponse
       /\ (pc[p] = "written" /\ pc'[p] # "written" /\ ~BuildFails(req[p])) =>
            IF logFile.kind = "badxml"
            THEN /\ resp'[p] = ServerError
                 /\ logFile' = logFile /\ backupFile' = backupFile
            ELSE Opens(p)]_vars

C2_Witness ==
  \E p \in Procs :
    /\ Done200(p)
    /\ how[p] = "recovered"
    /\ backupFile = NotAZip
    /\ logFile = Xlsx(<<KeyRow, StoredRow(rec[p])>>)

\* the fields the claim counts as missing: empty or absent, and the file
ClaimedMissing(r) ==
  {k \in Range(Required) : r.fields[k] = None \/ r.fields[k] = <<>>}
    \cup (IF ~r.resume.present \/ r.resume.filename = <<>> THEN {"resume"} ELSE {})

\* the message is "Missing fields: " and the names of set, each once,
\* joined by ", "
ListsExactly(message, set) ==
  LET n == Cardinality(set)
  IN /\ Len(message) = 2 * n
     /\ message[1] = "Missing fields: "
     /\ {message[2 * i] : i \in 1..n} = set
     /\ \A i \in 1..(n - 1) : message[2 * i + 1] = ", "

\* C3: a submission with a required field empty or absent, or without a
\* named file, is answered 400 with exactly the missing names, comma-joined,
\* and nothing is written to the upload directory or the log.
C3_MissingListed ==
  [][\A p \in Procs :
       (pc[p] = "form" /\ pc'[p] # "form" /\ ClaimedMissing(req[p]) # {}) =>
         /\ resp'[p].status = 400
         /\ ListsExactly(resp'[p].message, ClaimedMissing(req[p]))
         /\ pc'[p] = "done"
         /\ UNCHANGED stores]_vars

C3_Witness ==
  \E p \in Procs :
    /\ req[p].fields["name"] = None
    /\ req[p].fields["visa"] = <<>>
    /\ resp[p] = Response(400, <<"Missing fields: ", "name", ", ", "visa", ", ", "resume">>)

WhitespaceOnly(t) == t # None /\ t # <<>> /\ Strip(t) = <<>>

\* C4 as claimed: a submission with a whitespace-only required field is
\* rejected with 400 naming the field, and writes no file and no row.
C4_WhitespaceRejected ==
  \A p \in Procs : \A k \in Range(Required) :
    WhitespaceOnly(req[p].fields[k]) =>
      /\ pc[p] \notin {"written", "opened"}
      /\ pc[p] = "done" => (resp[p].status = 400 /\ k \in Range(resp[p].message))

\* the claim's extension rule
ClaimedExtOk(filename) ==
  Lower(Suffix(filename)) \in
    { <<".","p","d","f">>, <<".","d","o","c">>, <<".","d","o","c","x">> }

PassedAllFour(p) ==
  /\ Missing(req[p]) = <<>>
  /\ verdict[p] = "true"
  /\ req[p].resume.size <= MAX_UPLOAD_MB * MiB
  /\ ClaimedExtOk(req[p].resume.filename)

\* C5: a request answered 400 leaves the upload directory, the log and the
\* backup as they were, and whatever changes one of them is a step of a
\* request that passed all four checks.
C5_RejectedWritesNothing ==
  [][/\ \A p \in Procs :
          (resp'[p].status = 400 /\ resp[p].status # 400) =>
            /\ UNCHANGED stores
            /\ pc[p] \in {"form", "verifying", "reading"}
     /\ (stores' # stores) =>
          \E p \in Procs :
            /\ pc'[p] # pc[p]
            /\ pc'[p] \in {"written", "opened", "done"}
            /\ resp'[p].status # 400
            /\ PassedAllFour(p)]_vars

C5_Witness ==
  \E p \in Procs :
    /\ resp[p] = UnsupportedResponse
    /\ req[p].resume.filename = <<"c","v",".","e","x","e">>
    /\ uploads = {}

\* C6: the response is that of the first failing check in the order
\* required fields, verification, size, extension; a submission with a
\* missing field makes no verification call; the file is written only after
\* all four checks passed, and the log is opened only after the file is written.
C6_CheckOrder ==
  \A p \in Procs :
    /\ (Missing(req[p]) # <<>> /\ pc[p] \notin {"idle", "form"}) =>
         /\ resp[p] = MissingResponse(Missing(req[p]))
         /\ netCalls[p] = 0
         /\ verdict[p] = "none"
    /\ verdict[p] = "false" => resp[p] = RecaptchaResponse
    /\ resp[p] = RecaptchaResponse => (Missing(req[p]) = <<>> /\ verdict[p] = "false")
    /\ (verdict[p] = "true" /\ pc[p] # "reading"
          /\ req[p].resume.size > MAX_UPLOAD_MB * MiB) => resp[p] = TooLargeResponse
    /\ resp[p] = TooLargeResponse => (Missing(req[p]) = <<>> /\ verdict[p] = "true")
    /\ resp[p] = UnsupportedResponse =>
         /\ Missing(req[p]) = <<>>
         /\ verdict[p] = "true"
         /\ req[p].resume.size <= MAX_UPLOAD_MB * MiB
    /\ (pc[p] \in {"written", "opened"} \/ Done200(p)) =>
         /\ PassedAllFour(p)
         /\ Basename(req[p].resume.filename) \in Names(uploads)
    /\ (rec[p] # NoRecord \/ how[p] # "none") => pc[p] \in {"opened", "done"}

C6_Witness ==
  \E p \in Procs :
    /\ resp[p] = RecaptchaResponse
    /\ req[p].resume.size > MAX_UPLOAD_MB * MiB
    /\ ~ClaimedExtOk(req[p].resume.filename)

\* C7: verify_recaptcha returns true exactly when no secret is configured,
\* or no token was sent, or the call came back with success and a score of
\* at least 0.4; an error, a timeout or a malformed reply gives false.
C7_VerifyFailClosed ==
  [][\A p \in Procs :
       (verdict[p] = "none" /\ verdict'[p] # "none") =>
         /\ verdict'[p] \in {"true", "false"}
         /\ verdict'[p] = "true" <=>
              \/ secret = <<>>
              \/ req[p].token = None \/ req[p].token = <<>>
              \/ /\ netResp[p].kind = "json"
                 /\ netResp[p].success = "true"
                 /\ netResp[p].score = "number"
                 /\ netResp[p].tenths >= 4
         /\ netResp[p].kind \in {"error", "malformed"} => verdict'[p] = "false"]_vars

C7_Witness ==
  \E p \in Procs :
    /\ netCalls[p] = 1
    /\ verdict[p] = "true"
    /\ secret # <<>>

\* C8 as claimed: once a submission was appended, whatever the log was at
\* the start, its first row is the field-name list and every later row has
\* the header's width.
C8_HeaderFirst ==
  (\E p \in Procs : Done200(p)) =>
    /\ logFile.kind = "xlsx"
    /\ Len(logFile.rows) >= 2
    /\ logFile.rows[1] = KeyRow
    /\ \A i \in 2..Len(logFile.rows) : Len(logFile.rows[i]) = Len(Keys)

Occurrences(rows, row) == Cardinality({i \in 1..Len(rows) : rows[i] = row})

\* C9 as claimed: two submissions may interleave their open/append/save
\* sequences, nothing keeping the second one from going on while the first
\* is between opening and saving the log: a submission whose upload has
\* been read can take its next step then.
C9_MayInterleave ==
  \A p, q \in Procs :
    (p # q /\ pc[p] = "opened" /\ pc[q] = "reading") => ENABLED ReadUpload(q)

\* C9 amended: within one event loop at most one submission is between its
\* file write and its save, and the log holds a row for every submission
\* answered with success: no row is dropped.
C9_NoDroppedRow ==
  /\ Cardinality({p \in Procs : pc[p] \in {"written", "opened"}}) <= 1
  /\ \A p \in Procs :
       Done200(p) =>
         /\ logFile.kind = "xlsx"
         /\ Occurrences(logFile.rows, StoredRow(rec[p])) >=
              Cardinality({q \in Procs : Done200(q) /\ rec[q] = rec[p]})

C9_Witness ==
  \E p, q \in Procs :
    /\ p # q
    /\ Done200(p) /\ Done200(q)
    /\ netCalls[q] = 1
    /\ Occurrences(logFile.rows, StoredRow(rec[p])) >= 1
    /\ Occurrences(logFile.rows, StoredRow(rec[q])) >= 1

\* C10: every data row of the log names, in resume_filename, a file that
\* is in the upload directory.
C10_RowsNameUploads ==
  logFile.kind = "xlsx" =>
    \A i \in 1..Len(logFile.rows) :
      (Len(logFile.rows[i]) = Len(Keys) /\ logFile.rows[i] # KeyRow) =>
        logFile.rows[i][Len(Keys)] \in Names(uploads)

C10_Witness ==
  \E p, q \in Procs :
    /\ p # q
    /\ Done200(p) /\ Done200(q)
    /\ req[p].resume.filename # req[q].resume.filename
    /\ rec[p]["resume_filename"] = CvPdf
    /\ rec[q]["resume_filename"] = CvPdf
    /\ uploads = {Stored(CvPdf, req[q].resume.size)}
    /\ how[p] = "recovered"

====
